---------------------------- MODULE Spec2Model ----------------------------
(***************************************************************************)
(* Model of the Phishy analysis back end.                                  *)
(*                                                                         *)
(*   Spec       the orchestrator of POST /analyze-comprehensive            *)
(*              (backend/routes/comprehensive_analysis.py) together with   *)
(*              the detector and the adapters it calls;                    *)
(*   CacheSpec  POST /analyze-email and its prediction cache               *)
(*              (backend/routes/phishing_detector.py).                     *)
(*                                                                         *)
(* Scores are Python floats in the source.  The model keeps them as exact  *)
(* fixed-point integers in units of 1/Scale of a percentage point, so that *)
(* every product with a weight (0.7, 0.08, 0.07, 0.05, 0.02, 0.95, 1.5)    *)
(* and every average over at most three attachments is an integer.         *)
(* Float rounding is not modelled.                                         *)
(***************************************************************************)
EXTENDS Integers, Sequences, FiniteSets, TLC

(***************************************************************************)
(* Bounds of the model.                                                    *)
(***************************************************************************)
\* largest number of threat-list matches the vendor reports for one request
MaxThreats == 25
\* largest number of attachment filenames found in one email
MaxAttachments == 1
\* largest number of URLs found in one email
MaxUrls == 1

Scale == 2 * 3 * 100

Max(a, b) == IF a >= b THEN a ELSE b
Min(a, b) == IF a <= b THEN a ELSE b

RECURSIVE SumRisk(_)
SumRisk(s) == IF s = << >> THEN 0 ELSE Head(s).risk_score + SumRisk(Tail(s))

(***************************************************************************)
(* Program constants                                                       *)
(***************************************************************************)
W_ML == 70
W_URLSCAN == 8
W_GOOGLE == 7
W_FILE == 8
W_IP == 5
W_SPAM == 2
ML_DOMINANCE_THRESHOLD == 70
ML_DOMINANCE_FACTOR == 95
PHISHING_CUTOFF == 50
SPAM_PER_MATCH == 15
RULE_PHISHING_CUTOFF == 40
RULE_CONFIDENCE_CAP == 95
FILE_LIMIT == 3

(***************************************************************************)
(* Emails.  The text of an email is represented by what the extractors of  *)
(* the source compute from it: the feature vector of                       *)
(* extract_advanced_features, the URLs, attachment filenames and public    *)
(* IPv4 literals found by the regular expressions, and the number of spam  *)
(* indicator phrases it contains.  `ml' is what the trained classifier     *)
(* answers for this text when it is loaded (label, probability of the      *)
(* predicted label in percent, or `raises' when prediction throws).        *)
(***************************************************************************)
\* grammar_score4 is grammar_score in quarters, caps_ratio100 is caps_ratio
\* in percent
Features ==
    [url_count : {0}, suspicious_domains : {0, 1}, ip_urls : {0},
     urgency_score : {0}, social_engineering_score : {0},
     suspicious_phrases : {0}, personal_info_request : {0, 1},
     grammar_score4 : {0}, caps_ratio100 : {0}]

\* an attachment filename: the class of its extension and whether it
\* contains one of the social-engineering keywords
Attachment ==
    {[ext |-> "doc", keyword |-> FALSE], [ext |-> "exe", keyword |-> TRUE]}

RECURSIVE SeqsUpTo(_, _)
SeqsUpTo(S, n) ==
    IF n = 0 THEN {<< >>}
    ELSE LET shorter == SeqsUpTo(S, n - 1)
         IN  shorter \cup {Append(s, x) : s \in {t \in shorter : Len(t) = n - 1}, x \in S}

\* predict / predict_proba: the predicted label is the argmax, so the
\* probability of the predicted label is at least 50 percent
MLAnswers ==
    {[raises |-> FALSE, label |-> 1, prob |-> 92],
     [raises |-> FALSE, label |-> 1, prob |-> 60],
     [raises |-> FALSE, label |-> 0, prob |-> 90],
     [raises |-> TRUE,  label |-> 0, prob |-> 50]}

SpamMatches == {0, 7}

Vendors == {"urlscan_io", "google_safebrowsing", "virustotal", "abuseipdb"}

(***************************************************************************)
(* phishing_detector.py : EnhancedPhishingDetector                         *)
(***************************************************************************)
\* model_cache["initialized"] is False, True or the string "fallback":
\* "False", "True", "fallback" below
\* what the environment offers when the model is loaded
LoadOutcomes == {"loaded", "import_error", "missing", "error"}

\* a fallback taken for "not initialized yet": the load is tried again
initialize_models_retrying(initialized, load) ==
    IF initialized = "True" THEN initialized
    ELSE IF load = "loaded" THEN "True" ELSE "fallback"

initialize_models(initialized, load) ==
    IF initialized # "False" THEN initialized
    ELSE IF load = "loaded" THEN "True" ELSE "fallback"

analyze_with_rules(features) ==
    LET risk_score ==
              (IF features.url_count > 3 THEN 20 ELSE 0)
            + (IF features.suspicious_domains > 0 THEN 30 ELSE 0)
            + (IF features.ip_urls > 0 THEN 25 ELSE 0)
            + (IF features.urgency_score > 2 THEN 25 ELSE 0)
            + (IF features.social_engineering_score > 1 THEN 30 ELSE 0)
            + (IF features.suspicious_phrases > 0 THEN 20 ELSE 0)
            + (IF features.personal_info_request > 0 THEN 35 ELSE 0)
            + (IF features.grammar_score4 > 2 THEN 15 ELSE 0)
            + (IF features.caps_ratio100 > 30 THEN 10 ELSE 0)
    IN  [is_phishing |-> risk_score >= RULE_PHISHING_CUTOFF,
         confidence  |-> Min((risk_score * 3 * Scale) \div 2, RULE_CONFIDENCE_CAP * Scale),
         method      |-> "rule_based"]

\* a failed prediction answered with an empty model verdict
analyze_with_ml_unguarded(initialized, features, ml) ==
    IF initialized # "True" THEN analyze_with_rules(features)
    ELSE [is_phishing |-> (~ml.raises /\ ml.label = 1),
          confidence  |-> IF ml.raises THEN 0 ELSE ml.prob * Scale,
          method      |-> "ml_model"]

\* ml is the answer of the trained classifier for this text
analyze_with_ml(initialized, features, ml) ==
    IF initialized # "True" THEN analyze_with_rules(features)
    ELSE IF ml.raises THEN analyze_with_rules(features)
    ELSE [is_phishing |-> (ml.label = 1),
          confidence  |-> ml.prob * Scale,
          method      |-> "ml_model"]

(***************************************************************************)
(* plugin_api.py, ip_intelligence.py, file_analysis.py : the adapters      *)
(***************************************************************************)
\* what the HTTP exchange with a vendor can end in
UrlscanOutcomes == {"submitted", "http_error"}

\* the verdict of a finished scan reported, as full mode does
analyze_url_with_urlscan_scored(outcome) ==
    IF outcome = "submitted"
    THEN [present |-> TRUE, available |-> TRUE, malicious_score |-> 85,
          status |-> "malicious", error |-> ""]
    ELSE [present |-> TRUE, available |-> FALSE, malicious_score |-> 0,
          status |-> "", error |-> "URLScan.io API error"]

\* quick mode, the only mode analyze_email_comprehensive uses
analyze_url_with_urlscan(outcome) ==
    IF outcome = "submitted"
    THEN [present |-> TRUE, available |-> TRUE, malicious_score |-> 0,
          status |-> "submitted", error |-> ""]
    ELSE [present |-> TRUE, available |-> FALSE, malicious_score |-> 0,
          status |-> "",
          error |-> CASE outcome = "http_error" -> "URLScan.io API error"
                      [] outcome = "no_uuid" -> "URLScan.io scan submission failed"
                      [] outcome = "timeout" -> "URLScan.io API timeout"
                      [] OTHER -> "exception"]

\* the threat-list vendor answers 200 with a number of matches, or fails
GoogleOutcomes ==
    {[kind |-> "ok", matches |-> n] : n \in {0, MaxThreats}}
        \cup {[kind |-> k, matches |-> 0] : k \in {"http_error"}}

check_google_safebrowsing(outcome) ==
    IF outcome.kind = "ok"
    THEN [present |-> TRUE, available |-> TRUE, threats |-> outcome.matches, error |-> ""]
    ELSE [present |-> TRUE, available |-> FALSE, threats |-> 0,
          error |-> IF outcome.kind = "http_error" THEN "API returned status" ELSE "exception"]

VirusTotalOutcomes == {"ok", "http_error"}

check_virustotal(outcome) ==
    IF outcome = "ok"
    THEN [present |-> TRUE, available |-> TRUE, error |-> ""]
    ELSE [present |-> TRUE, available |-> FALSE, error |-> "API returned status"]

analyze_file_static(attachment) ==
    LET base  == IF attachment.ext = "exe" THEN 80
                 ELSE IF attachment.ext = "doc" THEN 30 ELSE 0
        score == IF attachment.keyword THEN base + 20 ELSE base
    IN  [is_malicious |-> score >= 50, risk_score |-> Min(score, 100)]

\* the reputation vendor answers 200 with its data, or fails
IpOutcomes ==
    {[kind |-> "ok", abuse |-> 100, reports |-> 11, whitelisted |-> TRUE],
     [kind |-> "http_error", abuse |-> 0, reports |-> 0, whitelisted |-> FALSE],
     [kind |-> "timeout", abuse |-> 0, reports |-> 0, whitelisted |-> FALSE]}

\* the outcome used when no request is sent to the vendor
NoExchange == [kind |-> "none", abuse |-> 0, reports |-> 0, whitelisted |-> FALSE]

analyze_ip_with_abuseipdb(key_configured, outcome) ==
    IF ~key_configured
    THEN [available |-> FALSE, error |-> "AbuseIPDB API key not configured",
          risk_score |-> 0, status |-> ""]
    ELSE IF outcome.kind = "ok"
    THEN LET r0 == outcome.abuse
             r1 == IF outcome.reports > 10 THEN Min(r0 + 10, 100) ELSE r0
             r2 == IF outcome.whitelisted THEN Max(r1 - 20, 0) ELSE r1
         IN  [available |-> TRUE, error |-> "", risk_score |-> r2,
              status |-> IF r2 >= 50 THEN "malicious" ELSE "clean"]
    ELSE [available |-> FALSE,
          error |-> IF outcome.kind = "timeout" THEN "AbuseIPDB API timeout"
                    ELSE "AbuseIPDB API returned status",
          risk_score |-> 0, status |-> ""]

(***************************************************************************)
(* comprehensive_analysis.py : ComprehensiveAnalysisEngine                 *)
(***************************************************************************)
Emails ==
    [feat : Features, ml : MLAnswers, n_urls : 0..MaxUrls,
     attachments : SeqsUpTo(Attachment, MaxAttachments),
     n_ips : {0, 1}, spam_matches : SpamMatches]

\* the value of `request' while no request is being served
NoEmail ==
    [feat |-> [url_count |-> 0, suspicious_domains |-> 0, ip_urls |-> 0,
               urgency_score |-> 0, social_engineering_score |-> 0,
               suspicious_phrases |-> 0, personal_info_request |-> 0,
               grammar_score4 |-> 0, caps_ratio100 |-> 0],
     ml |-> [raises |-> TRUE, label |-> 0, prob |-> 50],
     n_urls |-> 0, attachments |-> << >>, n_ips |-> 0, spam_matches |-> 0]

NoML == [present |-> FALSE, available |-> FALSE, prediction |-> "Unknown",
         confidence |-> 0, method |-> "", error |-> ""]
NoUrlscan == [present |-> FALSE, available |-> FALSE, malicious_score |-> 0,
              status |-> "", error |-> ""]
NoGoogle == [present |-> FALSE, available |-> FALSE, threats |-> 0, error |-> ""]
NoVirusTotal == [present |-> FALSE, available |-> FALSE, error |-> ""]
NoUrl == [present |-> FALSE, available |-> FALSE, urls_found |-> 0,
          urlscan |-> NoUrlscan, google |-> NoGoogle,
          virustotal |-> NoVirusTotal, error |-> ""]
NoFile == [present |-> FALSE, available |-> FALSE, attachments_found |-> 0,
           analysis_results |-> << >>, error |-> ""]
NoIpResult == [available |-> FALSE, error |-> "", risk_score |-> 0, status |-> ""]
NoIp == [present |-> FALSE, available |-> FALSE, ips_found |-> 0,
         has_result |-> FALSE, analysis_result |-> NoIpResult, error |-> ""]
NoBasic == [present |-> FALSE, available |-> FALSE]

\* analysis_results = {} : no key is present
EmptyResults ==
    [xgboostAnalysis |-> NoML, classification |-> "Unknown",
     urlAnalysis |-> NoUrl, fileAnalysis |-> NoFile, ipAnalysis |-> NoIp,
     headerAnalysis |-> NoBasic, senderAnalysis |-> NoBasic,
     has_overallRisk |-> FALSE, overallRisk |-> 0,
     has_spam_score |-> FALSE, spam_score |-> 0]

\* the dict _run_ml_analysis returns; the confidence stays in units of
\* 1/Scale percent (the division by 100 is undone by the * 100 of the reader)
run_ml_analysis(initialized, email, raises) ==
    IF raises
    THEN [present |-> TRUE, available |-> FALSE, prediction |-> "Unknown",
          confidence |-> 0, method |-> "", error |-> "exception"]
    ELSE LET result == analyze_with_ml(initialized, email.feat, email.ml)
         IN  [present |-> TRUE, available |-> TRUE,
              prediction |-> IF result.is_phishing THEN "Phishing" ELSE "Safe",
              confidence |-> result.confidence,
              method |-> result.method, error |-> ""]

\* a failed sandbox submission taken as the failure of the whole URL step
run_url_analysis_fragile(email, urlscan, google, virustotal) ==
    IF email.n_urls = 0
    THEN [NoUrl EXCEPT !.present = TRUE, !.available = TRUE]
    ELSE IF urlscan # "submitted"
    THEN [NoUrl EXCEPT !.present = TRUE, !.error = "exception"]
    ELSE [present |-> TRUE, available |-> TRUE, urls_found |-> email.n_urls,
          urlscan |-> analyze_url_with_urlscan(urlscan),
          google |-> check_google_safebrowsing(google),
          virustotal |-> check_virustotal(virustotal), error |-> ""]

run_url_analysis(email, urlscan, google, virustotal) ==
    IF email.n_urls = 0
    THEN [NoUrl EXCEPT !.present = TRUE, !.available = TRUE]
    ELSE [present |-> TRUE, available |-> TRUE, urls_found |-> email.n_urls,
          urlscan |-> analyze_url_with_urlscan(urlscan),
          google |-> check_google_safebrowsing(google),
          virustotal |-> check_virustotal(virustotal), error |-> ""]

FileEntry(attachment) ==
    LET static_result == analyze_file_static(attachment)
    IN  [is_suspicious |-> static_result.is_malicious,
         risk_score |-> static_result.risk_score]

run_file_analysis(email, raises) ==
    IF raises
    THEN [NoFile EXCEPT !.present = TRUE, !.error = "exception"]
    ELSE IF email.attachments = << >>
    THEN [NoFile EXCEPT !.present = TRUE, !.available = TRUE]
    ELSE LET analysed == SubSeq(email.attachments, 1,
                                Min(Len(email.attachments), FILE_LIMIT))
         IN  [present |-> TRUE, available |-> TRUE,
              attachments_found |-> Len(email.attachments),
              analysis_results |-> [i \in 1..Len(analysed) |-> FileEntry(analysed[i])],
              error |-> ""]

run_ip_analysis(email, key_configured, outcome) ==
    IF email.n_ips = 0
    THEN [NoIp EXCEPT !.present = TRUE, !.available = TRUE]
    ELSE [present |-> TRUE, available |-> TRUE, ips_found |-> email.n_ips,
          has_result |-> TRUE,
          analysis_result |-> analyze_ip_with_abuseipdb(key_configured, outcome),
          error |-> ""]

analyze_spam_indicators(email) ==
    LET matches == email.spam_matches
    IN  Min(matches * SPAM_PER_MATCH, 100)

\* ml_risk of _calculate_comprehensive_risk
MlRisk(ml_result) ==
    IF ml_result.present /\ ml_result.available
    THEN IF ml_result.confidence > 100 * Scale
         THEN ml_result.confidence \div 100
         ELSE ml_result.confidence
    ELSE 0

\* risk_score before the high-risk boost
WeightedSum(results) ==
    LET url_result  == results.urlAnalysis
        file_result == results.fileAnalysis
        ip_result   == results.ipAnalysis
        ml_term == (MlRisk(results.xgboostAnalysis) * W_ML) \div 100
        urlscan_term ==
            IF url_result.present /\ url_result.available
               /\ url_result.urlscan.present
               /\ url_result.urlscan.malicious_score # 0
            THEN url_result.urlscan.malicious_score * Scale * W_URLSCAN
            ELSE 0
        google_term ==
            IF url_result.present /\ url_result.available
               /\ url_result.google.present /\ url_result.google.threats > 0
            THEN (url_result.google.threats * 20 * Scale * W_GOOGLE) \div 100
            ELSE 0
        file_term ==
            IF file_result.present /\ file_result.available
               /\ file_result.analysis_results # << >>
            THEN (((SumRisk(file_result.analysis_results) * Scale)
                       \div Len(file_result.analysis_results)) * W_FILE) \div 100
            ELSE 0
        ip_term ==
            IF ip_result.present /\ ip_result.available /\ ip_result.has_result
            THEN (ip_result.analysis_result.risk_score * Scale * W_IP) \div 100
            ELSE 0
        spam_term ==
            IF results.has_spam_score
            THEN (results.spam_score * Scale * W_SPAM) \div 100
            ELSE 0
    IN  ml_term + urlscan_term + google_term + file_term + ip_term + spam_term

\* the boost applied with a factor of 0.90
DominanceOverride_weak(risk_score, ml_risk) ==
    IF ml_risk > ML_DOMINANCE_THRESHOLD * Scale
    THEN Max(risk_score, (ml_risk * 90) \div 100)
    ELSE risk_score

\* "High risk boost"
DominanceOverride(risk_score, ml_risk) ==
    IF ml_risk > ML_DOMINANCE_THRESHOLD * Scale
    THEN Max(risk_score, (ml_risk * ML_DOMINANCE_FACTOR) \div 100)
    ELSE risk_score

\* the final min() left out
ClampRisk_unclamped(risk_score) == risk_score

ClampRisk(risk_score) == Min(risk_score, 100 * Scale)

calculate_comprehensive_risk(results) ==
    ClampRisk(DominanceOverride(WeightedSum(results),
                                MlRisk(results.xgboostAnalysis)))

\* the dict analyze_email_comprehensive returns on the normal path
EngineVerdict(results, services) ==
    [has_overallRisk |-> TRUE, overallRisk |-> results.overallRisk,
     is_phishing |-> results.overallRisk >= PHISHING_CUTOFF * Scale,
     confidence_score |-> results.overallRisk,
     classification |-> results.classification,
     services_run |-> services]

\* the dict it returns from its except branch: the bare _run_ml_analysis
\* result, which has no 'overallRisk', 'is_phishing' or 'services_run' key
EngineFallback(ml_result) ==
    [has_overallRisk |-> FALSE, overallRisk |-> 0, is_phishing |-> FALSE,
     confidence_score |-> ml_result.confidence,
     classification |-> ml_result.prediction, services_run |-> << >>]

NoHttp == [status |-> 0, overall_risk |-> 0, is_phishing |-> FALSE,
           confidence_score |-> 0, classification |-> "", services_run |-> << >>]

\* the route: result['overallRisk'] raises KeyError on the fallback dict and
\* the response model rejects overall_risk outside [0, 100]; both end in the
\* HTTPException(500) of the route's except branch
route_response(result) ==
    IF ~result.has_overallRisk
       \/ result.overallRisk < 0 \/ result.overallRisk > 100 * Scale
    THEN [NoHttp EXCEPT !.status = 500]
    ELSE [status |-> 200, overall_risk |-> result.overallRisk,
          is_phishing |-> result.is_phishing,
          confidence_score |-> result.confidence_score,
          classification |-> result.classification,
          services_run |-> result.services_run]

(***************************************************************************)
(* State                                                                   *)
(***************************************************************************)
VARIABLES
    initialized,        \* model_cache["initialized"]
    api_keys,           \* the vendors whose key is configured (SHARED_API_KEYS)
    pc,                 \* position of the /analyze-comprehensive request
    request,            \* the email being analysed
    analysis_results,   \* analysis_results of analyze_email_comprehensive
    services_run,       \* services_run of analyze_email_comprehensive
    http,               \* the response of POST /analyze-comprehensive
    net_calls,          \* vendors contacted while serving the request
    outcomes,           \* what each vendor exchange of the request ended in
    invoked,            \* adapters called while serving the request
    previous,           \* whether the request repeats the one answered before
    prediction_cache,   \* model_cache["prediction_cache"]
    cache_expiry,       \* model_cache["cache_expiry"]
    now,                \* time.time(), in seconds
    classify_runs,      \* number of analyze_with_ml calls made by /analyze-email
    last,               \* the last /analyze-email request and its response
    scan,               \* the running call of analyze_url_with_urlscan
    endpoint,           \* the /safe-browsing, /urlscan or URL-step call and its result
    tasks               \* the /analyze-email handlers running on the event loop

orch_vars == <<pc, request, analysis_results, services_run, http, net_calls, outcomes,
               invoked, previous, api_keys>>
cache_vars == <<prediction_cache, cache_expiry, now, classify_runs, last>>
side_vars == <<scan, endpoint, tasks>>
vars == <<initialized, orch_vars, cache_vars, side_vars>>

NoOutcomes ==
    [urlscan |-> "none", google |-> [kind |-> "none", matches |-> 0],
     virustotal |-> "none", ip |-> NoExchange,
     ml_raised |-> FALSE, file_raised |-> FALSE, cancelled |-> "none"]

\* outcomes a vendor exchange can have, given whether the key is configured:
\* a vendor never answers a request without a valid key with a result
UrlscanFor(keys) ==
    IF "urlscan_io" \in keys THEN UrlscanOutcomes ELSE {"http_error"}
GoogleFor(keys) ==
    IF "google_safebrowsing" \in keys THEN GoogleOutcomes
    ELSE {o \in GoogleOutcomes : o.kind = "http_error"}
VirusTotalFor(keys) ==
    IF "virustotal" \in keys THEN VirusTotalOutcomes ELSE {"http_error"}

TrySteps == {"ml", "url", "file", "ip", "header", "sender", "risk", "spam"}

\* the request is no repetition
NoPrevious == [repeated |-> FALSE, services_run |-> << >>]

UrlAdapters == {"urlscan_io", "google_safebrowsing", "virustotal"}

\* the guard `if not urls' left out
url_adapters_called_always(email) == UrlAdapters

\* the adapters _run_url_analysis calls: none when no URL was found
url_adapters_called(email) ==
    IF email.n_urls = 0 THEN {} ELSE UrlAdapters

\* analyze_file_static is called for the attachments found
file_adapters_called(email) ==
    IF email.attachments = << >> THEN {} ELSE {"file_static"}

\* analyze_ip_with_abuseipdb is called for the first IP found
ip_adapters_called(email) ==
    IF email.n_ips = 0 THEN {} ELSE {"abuseipdb"}

(***************************************************************************)
(* POST /analyze-comprehensive, one action per step of                     *)
(* analyze_email_comprehensive                                             *)
(***************************************************************************)
Receive(email) ==
    /\ pc = "idle"
    /\ request' = email
    /\ analysis_results' = EmptyResults
    /\ services_run' = << >>
    /\ http' = NoHttp
    /\ net_calls' = {}
    /\ outcomes' = NoOutcomes
    /\ invoked' = {}
    /\ previous' = NoPrevious
    /\ pc' = "ml"
    /\ UNCHANGED <<initialized, api_keys, cache_vars, side_vars>>

\* Step 1
StepML(load, raises) ==
    /\ pc = "ml"
    /\ initialized' = initialize_models(initialized, load)
    /\ LET ml_result == run_ml_analysis(initialized', request, raises)
       IN  analysis_results' =
               [analysis_results EXCEPT !.xgboostAnalysis = ml_result,
                                        !.classification = ml_result.prediction]
    /\ services_run' = Append(services_run, "ml_classification")
    /\ outcomes' = [outcomes EXCEPT !.ml_raised = raises]
    /\ invoked' = invoked \cup {"classifier"}
    /\ pc' = "url"
    /\ UNCHANGED <<request, http, net_calls, previous, api_keys, cache_vars, side_vars>>

\* Step 2
StepURL(urlscan, google, virustotal) ==
    /\ pc = "url"
    /\ LET url_result == run_url_analysis(request, urlscan, google, virustotal)
       IN  analysis_results' = [analysis_results EXCEPT !.urlAnalysis = url_result]
    /\ services_run' = Append(services_run, "url_analysis")
    /\ IF request.n_urls = 0
       THEN UNCHANGED <<net_calls, outcomes>>
       ELSE /\ net_calls' = net_calls \cup UrlAdapters
            /\ outcomes' = [outcomes EXCEPT !.urlscan = urlscan, !.google = google,
                                            !.virustotal = virustotal]
    /\ invoked' = invoked \cup url_adapters_called(request)
    /\ pc' = "file"
    /\ UNCHANGED <<initialized, request, http, previous, api_keys, cache_vars, side_vars>>

\* Step 3
StepFile(raises) ==
    /\ pc = "file"
    /\ analysis_results' =
           [analysis_results EXCEPT !.fileAnalysis = run_file_analysis(request, raises)]
    /\ services_run' = Append(services_run, "file_analysis")
    /\ outcomes' = [outcomes EXCEPT !.file_raised = raises]
    /\ invoked' = invoked \cup file_adapters_called(request)
    /\ pc' = "ip"
    /\ UNCHANGED <<initialized, request, http, net_calls, previous, api_keys, cache_vars, side_vars>>

\* Step 4
StepIP(outcome) ==
    /\ pc = "ip"
    /\ analysis_results' =
           [analysis_results EXCEPT
               !.ipAnalysis = run_ip_analysis(request, "abuseipdb" \in api_keys, outcome)]
    /\ services_run' = Append(services_run, "ip_intelligence")
    /\ IF request.n_ips = 0 \/ "abuseipdb" \notin api_keys
       THEN UNCHANGED <<net_calls, outcomes>>
       ELSE /\ net_calls' = net_calls \cup {"abuseipdb"}
            /\ outcomes' = [outcomes EXCEPT !.ip = outcome]
    /\ invoked' = invoked \cup ip_adapters_called(request)
    /\ pc' = "header"
    /\ UNCHANGED <<initialized, request, http, previous, api_keys, cache_vars, side_vars>>

\* Step 5: the text handed to _run_header_analysis is never empty here
StepHeader ==
    /\ pc = "header"
    /\ analysis_results' =
           [analysis_results EXCEPT !.headerAnalysis = [present |-> TRUE, available |-> TRUE]]
    /\ services_run' = Append(services_run, "header_analysis")
    /\ pc' = "sender"
    /\ UNCHANGED <<initialized, request, http, net_calls, outcomes, invoked, previous,
                   api_keys, cache_vars, side_vars>>

\* Step 6
StepSender ==
    /\ pc = "sender"
    /\ analysis_results' =
           [analysis_results EXCEPT !.senderAnalysis = [present |-> TRUE, available |-> TRUE]]
    /\ services_run' = Append(services_run, "sender_reputation")
    /\ pc' = "risk"
    /\ UNCHANGED <<initialized, request, http, net_calls, outcomes, invoked, previous,
                   api_keys, cache_vars, side_vars>>

\* Step 7
StepRisk ==
    /\ pc = "risk"
    /\ LET overall_risk == calculate_comprehensive_risk(analysis_results)
       IN  analysis_results' =
               [analysis_results EXCEPT !.has_overallRisk = TRUE,
                                        !.overallRisk = overall_risk]
    /\ pc' = "spam"
    /\ UNCHANGED <<initialized, request, services_run, http, net_calls, outcomes,
                   invoked, previous, api_keys, cache_vars, side_vars>>

\* Step 8, the return of the engine and the response built by the route
StepSpam ==
    /\ pc = "spam"
    /\ analysis_results' =
           [analysis_results EXCEPT !.has_spam_score = TRUE,
                                    !.spam_score = analyze_spam_indicators(request)]
    /\ services_run' = Append(services_run, "email_analysis")
    /\ http' = route_response(EngineVerdict(analysis_results', services_run'))
    /\ pc' = "responded"
    /\ UNCHANGED <<initialized, request, net_calls, outcomes, invoked, previous,
                   api_keys, cache_vars, side_vars>>

\* An exception raised inside the try block of analyze_email_comprehensive:
\* the except branch returns _run_ml_analysis(email_content) to the route
Fault(load, raises) ==
    /\ pc \in TrySteps
    /\ initialized' = initialize_models(initialized, load)
    /\ http' = route_response(EngineFallback(run_ml_analysis(initialized', request, raises)))
    /\ analysis_results' = EmptyResults
    /\ services_run' = << >>
    /\ invoked' = invoked \cup {"classifier"}
    /\ pc' = "failed"
    /\ UNCHANGED <<request, net_calls, outcomes, previous, api_keys, cache_vars, side_vars>>

\* The caller cancels the task of the request while the adapter awaits its
\* vendor.  asyncio.CancelledError is raised at that await; it derives from
\* BaseException (Python 3.8+, which startup.py requires), so neither
\* `except asyncio.TimeoutError' nor `except Exception' of the adapter, of
\* the step, of analyze_email_comprehensive or of the route catches it: no
\* adapter result is recorded and no response is produced.
Cancel(adapter) ==
    /\ \/ pc = "url" /\ request.n_urls > 0 /\ adapter \in UrlAdapters
       \/ pc = "ip" /\ request.n_ips > 0 /\ adapter \in {"abuseipdb"} \cap api_keys
    /\ net_calls' = net_calls \cup {adapter}
    /\ outcomes' = [outcomes EXCEPT !.cancelled = adapter]
    /\ pc' = "cancelled"
    /\ UNCHANGED <<initialized, request, analysis_results, services_run, http, invoked,
                   previous, api_keys, cache_vars, side_vars>>

\* the request is over; the engine waits for the next request
Complete ==
    /\ pc \in {"responded", "failed", "cancelled"}
    /\ request' = NoEmail
    /\ analysis_results' = EmptyResults
    /\ services_run' = << >>
    /\ http' = NoHttp
    /\ net_calls' = {}
    /\ outcomes' = NoOutcomes
    /\ invoked' = {}
    /\ previous' = NoPrevious
    /\ pc' = "idle"
    /\ UNCHANGED <<initialized, api_keys, cache_vars, side_vars>>

\* the client that has just been answered posts the same content once more:
\* the route hands it to analyze_email_comprehensive like any other request
Resubmit ==
    /\ pc = "responded"
    /\ http.status = 200
    /\ ~previous.repeated
    /\ previous' = [repeated |-> TRUE, services_run |-> http.services_run]
    /\ analysis_results' = EmptyResults
    /\ services_run' = << >>
    /\ http' = NoHttp
    /\ net_calls' = {}
    /\ outcomes' = NoOutcomes
    /\ invoked' = {}
    /\ pc' = "ml"
    /\ UNCHANGED <<initialized, request, api_keys, cache_vars, side_vars>>

(***************************************************************************)
(* phishing_detector.py : POST /analyze-email and the prediction cache     *)
(*                                                                         *)
(* A Python dict keeps its keys in insertion order: it is a sequence of    *)
(* [key, value] items.  Assigning to a key that is present keeps the       *)
(* position of its item.                                                   *)
(***************************************************************************)
CACHE_TTL == 3600
CACHE_LIMIT == 100

\* entries the cache holds in the warm initial state
WarmEntries == 99
\* distinct emails beyond the warm ones that requests can carry
MaxFresh == 2
\* number of /analyze-email requests in one behaviour
MaxCacheRequests == 3

DictKeys(d) == {d[i].key : i \in 1..Len(d)}
DictHas(d, k) == k \in DictKeys(d)
DictGet(d, k) == d[CHOOSE i \in 1..Len(d) : d[i].key = k].value
DictSet(d, k, v) ==
    IF DictHas(d, k)
    THEN [i \in 1..Len(d) |-> IF d[i].key = k THEN [key |-> k, value |-> v] ELSE d[i]]
    ELSE Append(d, [key |-> k, value |-> v])
DictDel(d, k) == SelectSeq(d, LAMBDA item : item.key # k)

\* ties broken towards the key inserted last
MinKey_last(d) ==
    LET i == CHOOSE i \in 1..Len(d) :
                 /\ \A j \in 1..Len(d) : d[i].value <= d[j].value
                 /\ \A j \in (i + 1)..Len(d) : d[j].value > d[i].value
    IN  d[i].key

\* min(d, key=d.get): the first key, in iteration order, of least value
MinKey(d) ==
    LET i == CHOOSE i \in 1..Len(d) :
                 /\ \A j \in 1..Len(d) : d[i].value <= d[j].value
                 /\ \A j \in 1..(i - 1) : d[j].value > d[i].value
    IN  d[i].key

\* The text of the i-th email, by what the detector computes from it; the
\* text number 0 cannot be encoded
CacheEmail(i) ==
    [id |-> i, encodable |-> (i # 0),
     feat |-> [url_count |-> 0, suspicious_domains |-> i % 2, ip_urls |-> 0,
               urgency_score |-> 0, social_engineering_score |-> 0,
               suspicious_phrases |-> 0,
               personal_info_request |-> (i \div 2) % 2,
               grammar_score4 |-> 0, caps_ratio100 |-> 0],
     ml |-> [raises |-> (i % 5 = 4), label |-> i % 2,
             prob |-> IF i % 3 = 0 THEN 92 ELSE 60]]

\* hashlib.md5(content).hexdigest(): one key per content, nothing but the
\* content enters the key
email_hash(req) == req.email_content.id

get_risk_level(confidence, is_phishing) ==
    IF ~is_phishing THEN "LOW"
    ELSE IF confidence >= 90 * Scale THEN "CRITICAL"
    ELSE IF confidence >= 75 * Scale THEN "HIGH"
    ELSE IF confidence >= 50 * Scale THEN "MEDIUM"
    ELSE "LOW"

\* PhishingAnalysisResponse
BuildResponse(req, analysis_result, analysis_time, timestamp) ==
    [is_phishing |-> analysis_result.is_phishing,
     confidence_score |-> analysis_result.confidence,
     risk_level |-> get_risk_level(analysis_result.confidence, analysis_result.is_phishing),
     with_features |-> req.include_detailed_analysis,
     analysis_method |-> analysis_result.method,
     email_id |-> req.email_content.id,
     analysis_time |-> analysis_time,
     timestamp |-> timestamp]

NoResponse ==
    [is_phishing |-> FALSE, confidence_score |-> 0, risk_level |-> "",
     with_features |-> FALSE, analysis_method |-> "", email_id |-> 0,
     analysis_time |-> 0, timestamp |-> 0]

\* the age compared with <= instead of <
CacheFresh_inclusive(cache, expiry, key, t) ==
    /\ DictHas(cache, key)
    /\ t - (IF DictHas(expiry, key) THEN DictGet(expiry, key) ELSE 0) <= CACHE_TTL

\* the age compared the wrong way round
CacheFresh_inverted(cache, expiry, key, t) ==
    /\ DictHas(cache, key)
    /\ t - (IF DictHas(expiry, key) THEN DictGet(expiry, key) ELSE 0) > CACHE_TTL

\* "Check cache first"
CacheFresh(cache, expiry, key, t) ==
    /\ DictHas(cache, key)
    /\ t - (IF DictHas(expiry, key) THEN DictGet(expiry, key) ELSE 0) < CACHE_TTL

\* the limit compared off by one
NeedsEviction_late(cache) == Len(cache) > CACHE_LIMIT + 1

\* "Clean old cache entries (keep last 100)"
NeedsEviction(cache) == Len(cache) > CACHE_LIMIT

\* the eviction forgetting the timestamp of the evicted key
StoreResult_partial(cache, expiry, key, response, t) ==
    LET cache1  == DictSet(cache, key, response)
        expiry1 == DictSet(expiry, key, t)
    IN  IF NeedsEviction(cache1)
        THEN LET oldest_key == MinKey(expiry1)
             IN  [cache |-> DictDel(cache1, oldest_key),
                  expiry |-> expiry1,
                  evicted |-> oldest_key]
        ELSE [cache |-> cache1, expiry |-> expiry1, evicted |-> 0]

\* "Cache result": both dicts after the store at time t
StoreResult(cache, expiry, key, response, t) ==
    LET cache1  == DictSet(cache, key, response)
        expiry1 == DictSet(expiry, key, t)
    IN  IF NeedsEviction(cache1)
        THEN LET oldest_key == MinKey(expiry1)
             IN  [cache |-> DictDel(cache1, oldest_key),
                  expiry |-> DictDel(expiry1, oldest_key),
                  evicted |-> oldest_key]
        ELSE [cache |-> cache1, expiry |-> expiry1, evicted |-> 0]

\* the cache used whatever the request asks for
caching_always(req) == TRUE

\* `if request.cache_results', at the lookup and at the store
caching(req) == req.cache_results

CacheRequests ==
    [email_content : {CacheEmail(i) : i \in {0, 1} \cup (WarmEntries + 1)..(WarmEntries + MaxFresh)},
     include_detailed_analysis : BOOLEAN, cache_results : BOOLEAN]

\* POST /analyze-email.  The handler has no suspension point: every
\* coroutine it awaits runs to completion without yielding to the event
\* loop, and the clock does not advance while it runs.  A text that cannot
\* be encoded (a lone surrogate) makes email_content.encode() raise, which
\* the handler turns into HTTPException(500).
AnalyzeEmail(req, load) ==
    /\ last.seq < MaxCacheRequests
    /\ IF caching(req) /\ ~req.email_content.encodable
       THEN /\ last' = [seq |-> last.seq + 1, key |-> 0,
                        include_detailed_analysis |-> req.include_detailed_analysis,
                        cache_results |-> req.cache_results, status |-> 500,
                        hit |-> FALSE, evicted |-> 0, response |-> NoResponse]
            /\ UNCHANGED <<initialized, prediction_cache, cache_expiry, classify_runs>>
       ELSE LET key == email_hash(req)
            IN  IF caching(req) /\ CacheFresh(prediction_cache, cache_expiry, key, now)
                THEN /\ last' = [seq |-> last.seq + 1, key |-> key,
                                 include_detailed_analysis |->
                                     req.include_detailed_analysis,
                                 cache_results |-> req.cache_results, status |-> 200,
                                 hit |-> TRUE, evicted |-> 0,
                                 response |-> DictGet(prediction_cache, key)]
                     /\ UNCHANGED <<initialized, prediction_cache, cache_expiry, classify_runs>>
                ELSE /\ initialized' = initialize_models(initialized, load)
                     /\ classify_runs' = classify_runs + 1
                     /\ LET features == req.email_content.feat
                            analysis_result ==
                                analyze_with_ml(initialized', features, req.email_content.ml)
                            response == BuildResponse(req, analysis_result, 0, now)
                            stored == StoreResult(prediction_cache, cache_expiry, key,
                                                  response, now)
                        IN  /\ last' = [seq |-> last.seq + 1, key |-> key,
                                        include_detailed_analysis |->
                                            req.include_detailed_analysis,
                                        cache_results |-> req.cache_results,
                                        status |-> 200, hit |-> FALSE,
                                        evicted |-> IF caching(req)
                                                    THEN stored.evicted ELSE 0,
                                        response |-> response]
                            /\ IF caching(req)
                               THEN /\ prediction_cache' = stored.cache
                                    /\ cache_expiry' = stored.expiry
                               ELSE UNCHANGED <<prediction_cache, cache_expiry>>
    /\ UNCHANGED <<orch_vars, now, side_vars>>

\* time passes between two requests
TickSteps == {CACHE_TTL - 1, CACHE_TTL}
Horizon == WarmEntries + 2 * CACHE_TTL

Tick(d) ==
    /\ now + d <= Horizon
    /\ now' = now + d
    /\ UNCHANGED <<initialized, orch_vars, prediction_cache, cache_expiry, classify_runs,
                   last, side_vars>>

(***************************************************************************)
(* plugin_api.py : analyze_url_with_urlscan, step by step                  *)
(***************************************************************************)
max_attempts == 3
wait_times == <<5, 10, 15>>

\* what the vendor answers to the submission
SubmitAnswers ==
    [kind : {"ok"}, uuid : {"", "scan-a", "scan-b"}]
        \cup [kind : {"http_error", "timeout"}, uuid : {""}]

\* what the vendor answers to a poll of the result: 200 with its verdicts,
\* 404 while the scan is running, another status, or nothing in time
\* (status 0)
Verdicts ==
    {[malicious |-> TRUE,  suspicious |-> FALSE, bad_engines |-> 0, engines |-> 0],
     [malicious |-> FALSE, suspicious |-> TRUE,  bad_engines |-> 0, engines |-> 0],
     [malicious |-> FALSE, suspicious |-> FALSE, bad_engines |-> 1, engines |-> 3],
     [malicious |-> FALSE, suspicious |-> FALSE, bad_engines |-> 0, engines |-> 0]}
NoVerdict == [malicious |-> FALSE, suspicious |-> FALSE, bad_engines |-> 0, engines |-> 0]
PollAnswers ==
    [status : {200}, verdicts : Verdicts]
        \cup [status : {404, 429, 500, 0}, verdicts : {NoVerdict}]

NoScanResult == [available |-> FALSE, malicious_score |-> 0, status |-> "",
                 error |-> "", scan_id |-> ""]
NoScan == [pc |-> "idle", quick_mode |-> TRUE, scan_id |-> "", attempt |-> 0,
           waits |-> << >>, polls |-> << >>, result |-> NoScanResult]

ScanFailed(error) == [NoScanResult EXCEPT !.error = error]

\* what the call returns when it ends with the submission
submit_result(answer) ==
    IF answer.kind = "timeout" THEN ScanFailed("URLScan.io API timeout")
    ELSE IF answer.kind # "ok" THEN ScanFailed("URLScan.io API error")
    ELSE IF answer.uuid = "" THEN ScanFailed("URLScan.io scan submission failed")
    ELSE [available |-> TRUE, malicious_score |-> 0, status |-> "submitted",
          error |-> "", scan_id |-> answer.uuid]

\* quick mode ignored: every accepted submission is followed by polling
returns_after_submission_never(answer, quick_mode) ==
    answer.kind # "ok" \/ answer.uuid = ""

\* the call ends with the submission: it failed, or quick mode is on
returns_after_submission(answer, quick_mode) ==
    answer.kind # "ok" \/ answer.uuid = "" \/ quick_mode

malicious_score_of(verdicts) ==
    IF verdicts.malicious THEN 85
    ELSE IF verdicts.suspicious THEN 60
    ELSE IF verdicts.engines > 0
    THEN (verdicts.bad_engines * 100) \div verdicts.engines
    ELSE 0

\* a scan still running after the last poll taken as a failure
poll_result_impatient(attempt, answer) ==
    IF answer.status = 0
    THEN [returns |-> TRUE, result |-> ScanFailed("URLScan.io API timeout")]
    ELSE IF answer.status = 200
    THEN LET malicious_score == malicious_score_of(answer.verdicts)
         IN  [returns |-> TRUE,
              result |-> [available |-> TRUE, malicious_score |-> malicious_score,
                          status |-> IF malicious_score >= 50 THEN "malicious" ELSE "clean",
                          error |-> "", scan_id |-> ""]]
    ELSE IF attempt < max_attempts - 1
    THEN [returns |-> FALSE, result |-> NoScanResult]
    ELSE [returns |-> TRUE,
          result |-> ScanFailed("URLScan.io result fetch failed")]

\* the body of the polling loop for one answer: whether the call returns and
\* with what; attempt counts from 0
poll_result(attempt, answer) ==
    IF answer.status = 0
    THEN [returns |-> TRUE, result |-> ScanFailed("URLScan.io API timeout")]
    ELSE IF answer.status = 200
    THEN LET malicious_score == malicious_score_of(answer.verdicts)
         IN  [returns |-> TRUE,
              result |-> [available |-> TRUE, malicious_score |-> malicious_score,
                          status |-> IF malicious_score >= 50 THEN "malicious" ELSE "clean",
                          error |-> "", scan_id |-> ""]]
    ELSE IF attempt < max_attempts - 1
    THEN [returns |-> FALSE, result |-> NoScanResult]
    ELSE IF answer.status = 404
    THEN [returns |-> TRUE,
          result |-> [available |-> TRUE, malicious_score |-> 0,
                      status |-> "processing", error |-> "", scan_id |-> ""]]
    ELSE [returns |-> TRUE,
          result |-> ScanFailed("URLScan.io result fetch failed")]

scan_unchanged == UNCHANGED <<initialized, orch_vars, cache_vars, endpoint, tasks>>

\* the call and its submission
ScanSubmit(quick_mode, answer) ==
    /\ scan.pc = "idle"
    /\ scan' = IF returns_after_submission(answer, quick_mode)
               THEN [NoScan EXCEPT !.pc = "returned", !.quick_mode = quick_mode,
                                   !.scan_id = answer.uuid,
                                   !.result = submit_result(answer)]
               ELSE [NoScan EXCEPT !.pc = "sleep", !.quick_mode = quick_mode,
                                   !.scan_id = answer.uuid]
    /\ scan_unchanged

\* await asyncio.sleep(wait_times[attempt])
ScanSleep ==
    /\ scan.pc = "sleep"
    /\ scan' = [scan EXCEPT !.pc = "poll",
                            !.waits = Append(@, wait_times[scan.attempt + 1])]
    /\ scan_unchanged

\* session.get(result_url) and the branch taken on its answer
ScanPoll(answer) ==
    /\ scan.pc = "poll"
    /\ LET step == poll_result(scan.attempt, answer)
       IN  scan' = IF step.returns
                   THEN [scan EXCEPT !.pc = "returned",
                                     !.polls = Append(@, answer),
                                     !.result = step.result]
                   ELSE [scan EXCEPT !.pc = "sleep",
                                     !.polls = Append(@, answer),
                                     !.attempt = @ + 1]
    /\ scan_unchanged

(***************************************************************************)
(* comprehensive_analysis.py : POST /safe-browsing, POST /urlscan and      *)
(* _run_url_analysis, at the level of the URL list of the request          *)
(***************************************************************************)
\* longest URL list of a request
MaxUrlList == 6

PRIORITY_LIMIT == 3
NORMAL_LIMIT == 2
BATCH_LIMIT == 5
PARALLEL_LIMIT == 3
MALICIOUS_CUTOFF == 50

\* The URLs of a request in input order.  `id' is the position of the URL in
\* the input, `suspicious' whether its lower-cased text contains one of the
\* suspicious_indicators.
UrlLists ==
    UNION {{[i \in 1..n |-> [id |-> i, suspicious |-> flags[i]]] :
                flags \in [1..n -> BOOLEAN]} : n \in 0..MaxUrlList}

\* the slice s[:n]
Take(s, n) == SubSeq(s, 1, Min(n, Len(s)))

IsSuspicious(url) == url.suspicious
IsNormal(url) == ~url.suspicious

\* prioritize_urls_safebrowsing of /safe-browsing
prioritize_urls_safebrowsing(urls) ==
    LET priority_urls == SelectSeq(urls, IsSuspicious)
        normal_urls   == SelectSeq(urls, IsNormal)
    IN  Take(Take(priority_urls, PRIORITY_LIMIT) \o Take(normal_urls, NORMAL_LIMIT),
             BATCH_LIMIT)

\* prioritize_urls of /urlscan
prioritize_urls(urls) ==
    LET priority_urls == SelectSeq(urls, IsSuspicious)
        normal_urls   == SelectSeq(urls, IsNormal)
    IN  Take(Take(priority_urls, PRIORITY_LIMIT) \o Take(normal_urls, NORMAL_LIMIT),
             BATCH_LIMIT)

\* what analyze_url_with_google_safebrowsing ends in, the 15 s of wait_for
\* included
ThreatListAnswers == {"clean", "threat", "http_error", "timeout"}

\* what one scan ends in, the 12 s of wait_for included
ScanOutcomes == UrlscanOutcomes \cup {"timeout"}

\* scan_single_url; `url' is the URL the scan was submitted for, which the
\* scan_id of the vendor's result stands for
scan_single_url(url, outcome) ==
    IF outcome = "timeout"
    THEN [url |-> url.id, available |-> FALSE, malicious_score |-> 0,
          error |-> "URL scan timeout"]
    ELSE LET result == analyze_url_with_urlscan(outcome)
         IN  [url |-> url.id, available |-> result.available,
              malicious_score |-> result.malicious_score, error |-> result.error]

IsAvailable(result) == result.available

\* max(r.get('malicious_score', 0) for r in valid_results)
max_score(valid_results) ==
    CHOOSE m \in {valid_results[i].malicious_score : i \in 1..Len(valid_results)} :
        \A i \in 1..Len(valid_results) : valid_results[i].malicious_score <= m

\* zip(urls_to_scan, valid_results) of the scanned_urls comprehension
ScannedUrls(urls_to_scan, valid_results) ==
    [i \in 1..Min(Len(urls_to_scan), Len(valid_results)) |->
        [url |-> urls_to_scan[i].id, score |-> valid_results[i].malicious_score]]

\* the value of `endpoint' while none of the three has been called
NoEndpoint ==
    [op |-> "none", urls |-> << >>, status |-> "", threat_entries |-> << >>,
     launched |-> << >>, scanned_results |-> << >>, scanned_urls |-> << >>]

endpoint_unchanged == UNCHANGED <<initialized, orch_vars, cache_vars, scan, tasks>>

\* POST /safe-browsing with a non-empty email_content
get_safe_browsing_analysis(urls, answer) ==
    /\ endpoint.op = "none"
    /\ endpoint' =
          IF urls = << >>
          THEN [NoEndpoint EXCEPT !.op = "safe_browsing", !.status = "clean"]
          ELSE IF "google_safebrowsing" \notin api_keys
          THEN [NoEndpoint EXCEPT !.op = "safe_browsing", !.urls = urls,
                                  !.status = "error"]
          ELSE LET urls_to_check == prioritize_urls_safebrowsing(urls)
               IN  [NoEndpoint EXCEPT
                       !.op = "safe_browsing", !.urls = urls,
                       !.threat_entries = urls_to_check,
                       !.status = IF answer \in {"clean", "threat"}
                                  THEN answer ELSE "error"]
    /\ endpoint_unchanged

\* POST /urlscan with a non-empty email_content; outcome[i] is what the scan
\* of the i-th launched URL ends in
get_urlscan_analysis(urls, outcome) ==
    /\ endpoint.op = "none"
    /\ endpoint' =
          IF urls = << >>
          THEN [NoEndpoint EXCEPT !.op = "urlscan", !.status = "clean"]
          ELSE IF "urlscan_io" \notin api_keys
          THEN [NoEndpoint EXCEPT !.op = "urlscan", !.urls = urls, !.status = "error"]
          ELSE LET urls_to_scan == prioritize_urls(urls)
                   parallel_limit == Min(PARALLEL_LIMIT, Len(urls_to_scan))
                   launched == Take(urls_to_scan, parallel_limit)
                   scanned_results ==
                       [i \in 1..parallel_limit |->
                           scan_single_url(launched[i], outcome[i])]
                   valid_results == SelectSeq(scanned_results, IsAvailable)
                   final_score == max_score(valid_results)
               IN  IF valid_results # << >>
                   THEN [op |-> "urlscan", urls |-> urls,
                         status |-> IF final_score >= MALICIOUS_CUTOFF
                                    THEN "malicious" ELSE "clean",
                         threat_entries |-> << >>,
                         launched |-> launched,
                         scanned_results |-> scanned_results,
                         scanned_urls |-> ScannedUrls(urls_to_scan, valid_results)]
                   ELSE [op |-> "urlscan", urls |-> urls, status |-> "error",
                         threat_entries |-> << >>, launched |-> launched,
                         scanned_results |-> scanned_results,
                         scanned_urls |-> << >>]
    /\ endpoint_unchanged

\* _run_url_analysis on the URLs found in the email: the sandbox gets the
\* first URL, the threat list all of them
run_url_analysis_on(urls, urlscan, google) ==
    /\ endpoint.op = "none"
    /\ endpoint' =
          IF urls = << >>
          THEN [NoEndpoint EXCEPT !.op = "url_analysis", !.status = "clean"]
          ELSE LET first_url == urls[1]
               IN  [op |-> "url_analysis", urls |-> urls,
                    status |-> IF google.kind = "ok" THEN "clean" ELSE "error",
                    threat_entries |-> urls,
                    launched |-> <<first_url>>,
                    scanned_results |-> <<scan_single_url(first_url, urlscan)>>,
                    scanned_urls |-> << >>]
    /\ endpoint_unchanged

(***************************************************************************)
(* phishing_detector.py : the handlers of POST /analyze-email as tasks of  *)
(* one asyncio event loop                                                  *)
(***************************************************************************)
\* requests served concurrently
MaxTasks == 2

\* the classification handed to another thread and awaited there
suspends_at_analysis(point) == point = "analyze_with_ml"

\* Whether the handler gives the event loop to another task at this await.
\* The coroutines it awaits, initialize_models and analyze_with_ml (which
\* awaits analyze_with_rules), await nothing that is pending: they run to
\* their return within the step of the awaiting task.
suspends(point) == FALSE

NoAnalysis == [is_phishing |-> FALSE, confidence |-> 0, method |-> ""]

NoTask ==
    [pc |-> "none",
     req |-> [email_content |-> CacheEmail(0), include_detailed_analysis |-> FALSE,
              cache_results |-> FALSE],
     cold |-> FALSE, status |-> 0, hit |-> FALSE, classified |-> FALSE,
     analysis_result |-> NoAnalysis, response |-> NoResponse]

\* running = 0: no handler holds the event loop
NoTasks == [running |-> 0, of |-> [t \in 1..MaxTasks |-> NoTask]]

TaskRequests ==
    [email_content : {CacheEmail(i) : i \in {1, 2}},
     include_detailed_analysis : {TRUE}, cache_results : BOOLEAN]

tasks_unchanged == UNCHANGED <<orch_vars, now, last, scan, endpoint>>

\* the task after a step that ends at `point': it keeps the loop unless it
\* has returned or suspends there
Scheduled(t, task, point) ==
    [running |-> IF task.pc = "done" \/ suspends(point) THEN 0 ELSE t,
     of |-> [tasks.of EXCEPT ![t] = task]]

MayRun(t, at) == tasks.running \in {0, t} /\ tasks.of[t].pc = at

\* the server creates the task of a request; `cold' records that the key of
\* the request was not cached at that moment
TaskArrive(t, req) ==
    /\ tasks.running = 0
    /\ tasks.of[t].pc = "none"
    /\ \A u \in 1..(t - 1) : tasks.of[u].pc # "none"
    /\ tasks' = [tasks EXCEPT
                    !.of[t] = [NoTask EXCEPT
                                  !.pc = "start", !.req = req,
                                  !.cold = ~DictHas(prediction_cache, email_hash(req))]]
    /\ UNCHANGED <<initialized, prediction_cache, cache_expiry, classify_runs>>
    /\ tasks_unchanged

\* "Check cache first", up to `await detector.initialize_models()'
TaskLookup(t) ==
    /\ MayRun(t, "start")
    /\ LET task == tasks.of[t]
           req == task.req
           key == email_hash(req)
       IN  tasks' =
              IF caching(req) /\ ~req.email_content.encodable
              THEN Scheduled(t, [task EXCEPT !.pc = "done", !.status = 500], "return")
              ELSE IF caching(req) /\ CacheFresh(prediction_cache, cache_expiry, key, now)
              THEN Scheduled(t, [task EXCEPT !.pc = "done", !.status = 200,
                                             !.hit = TRUE,
                                             !.response = DictGet(prediction_cache, key)],
                             "return")
              ELSE Scheduled(t, [task EXCEPT !.pc = "analyze"], "initialize_models")
    /\ IF tasks'.of[t].pc = "analyze"
       THEN \E load \in {"loaded", "missing"} :
                initialized' = initialize_models(initialized, load)
       ELSE UNCHANGED initialized
    /\ UNCHANGED <<prediction_cache, cache_expiry, classify_runs>>
    /\ tasks_unchanged

\* feature extraction and `await detector.analyze_with_ml(...)'
TaskAnalyze(t) ==
    /\ MayRun(t, "analyze")
    /\ LET task == tasks.of[t]
           analysis_result ==
               analyze_with_ml(initialized, task.req.email_content.feat,
                               task.req.email_content.ml)
       IN  tasks' = Scheduled(t, [task EXCEPT !.pc = "store", !.classified = TRUE,
                                              !.analysis_result = analysis_result],
                              "analyze_with_ml")
    /\ classify_runs' = classify_runs + 1
    /\ UNCHANGED <<initialized, prediction_cache, cache_expiry>>
    /\ tasks_unchanged

\* the response is built and, `if request.cache_results', stored
TaskStore(t) ==
    /\ MayRun(t, "store")
    /\ LET task == tasks.of[t]
           req == task.req
           response == BuildResponse(req, task.analysis_result, 0, now)
           stored == StoreResult(prediction_cache, cache_expiry, email_hash(req),
                                 response, now)
       IN  /\ tasks' = Scheduled(t, [task EXCEPT !.pc = "done", !.status = 200,
                                                 !.response = response], "return")
           /\ IF caching(req)
              THEN /\ prediction_cache' = stored.cache
                   /\ cache_expiry' = stored.expiry
              ELSE UNCHANGED <<prediction_cache, cache_expiry>>
    /\ UNCHANGED <<initialized, classify_runs>>
    /\ tasks_unchanged

(***************************************************************************)
(* The specification of the orchestrator                                   *)
(***************************************************************************)
NoLast == [seq |-> 0, key |-> 0, include_detailed_analysis |-> FALSE,
           cache_results |-> FALSE, status |-> 0,
           hit |-> FALSE, evicted |-> 0, response |-> NoResponse]

Init ==
    /\ initialized = "False"
    /\ api_keys \in {{}, Vendors}
    /\ pc = "idle"
    /\ request = NoEmail
    /\ analysis_results = EmptyResults
    /\ services_run = << >>
    /\ http = NoHttp
    /\ net_calls = {}
    /\ outcomes = NoOutcomes
    /\ invoked = {}
    /\ previous = NoPrevious
    /\ prediction_cache = << >>
    /\ cache_expiry = << >>
    /\ now = 0
    /\ classify_runs = 0
    /\ last = NoLast
    /\ scan = NoScan
    /\ endpoint = NoEndpoint
    /\ tasks = NoTasks

Next ==
    \/ \E email \in Emails : Receive(email)
    \/ \E load \in LoadOutcomes, raises \in BOOLEAN : StepML(load, raises)
    \/ \E urlscan \in UrlscanFor(api_keys), google \in GoogleFor(api_keys),
          virustotal \in VirusTotalFor(api_keys) :
            StepURL(urlscan, google, virustotal)
    \/ \E raises \in BOOLEAN : StepFile(raises)
    \/ \E outcome \in IpOutcomes : StepIP(outcome)
    \/ StepHeader
    \/ StepSender
    \/ StepRisk
    \/ StepSpam
    \/ \E load \in LoadOutcomes, raises \in BOOLEAN : Fault(load, raises)
    \/ Complete

Spec == Init /\ [][Next]_vars

(***************************************************************************)
(* The orchestrator serving requests that may be repeated                  *)
(***************************************************************************)
\* the emails posted in these behaviours
RepeatEmails ==
    {e \in Emails : /\ e.feat = NoEmail.feat
                    /\ e.spam_matches = 0
                    /\ e.ml.raises \/ e.ml.prob = 92}

RepeatNext ==
    \/ \E email \in RepeatEmails : Receive(email)
    \/ \E load \in LoadOutcomes, raises \in BOOLEAN : StepML(load, raises)
    \/ \E urlscan \in UrlscanFor(api_keys), google \in GoogleFor(api_keys),
          virustotal \in VirusTotalFor(api_keys) :
            StepURL(urlscan, google, virustotal)
    \/ \E raises \in BOOLEAN : StepFile(raises)
    \/ \E outcome \in IpOutcomes : StepIP(outcome)
    \/ StepHeader
    \/ StepSender
    \/ StepRisk
    \/ StepSpam
    \/ \E load \in LoadOutcomes, raises \in BOOLEAN : Fault(load, raises)
    \/ Resubmit
    \/ Complete

RepeatSpec == Init /\ [][RepeatNext]_vars

(***************************************************************************)
(* The orchestrator serving requests that the caller may cancel            *)
(***************************************************************************)
CancelNext ==
    \/ RepeatNext
    \/ \E adapter \in UrlAdapters \cup {"abuseipdb"} : Cancel(adapter)

CancelSpec == Init /\ [][CancelNext]_vars

(***************************************************************************)
(* The specification of /analyze-email                                     *)
(***************************************************************************)
\* the two dicts after the first n emails (n <= CACHE_LIMIT, so nothing was
\* evicted) were analysed one second apart, the i-th at time i, each request
\* storing its result
WarmRequest(i) ==
    [email_content |-> CacheEmail(i), include_detailed_analysis |-> TRUE,
     cache_results |-> TRUE]

WarmCache(n, mode) ==
    [i \in 1..n |->
        [key |-> email_hash(WarmRequest(i)),
         value |-> BuildResponse(WarmRequest(i),
                                 analyze_with_ml(mode, CacheEmail(i).feat, CacheEmail(i).ml),
                                 0, i)]]

WarmExpiry(n) == [i \in 1..n |-> [key |-> email_hash(WarmRequest(i)), value |-> i]]

\* the same n emails analysed within one tick of the clock: time.time()
\* returned the value n for every one of them
BurstCache(n, mode) ==
    [i \in 1..n |->
        [key |-> email_hash(WarmRequest(i)),
         value |-> BuildResponse(WarmRequest(i),
                                 analyze_with_ml(mode, CacheEmail(i).feat, CacheEmail(i).ml),
                                 0, n)]]

BurstExpiry(n) == [i \in 1..n |-> [key |-> email_hash(WarmRequest(i)), value |-> n]]

OrchIdle ==
    /\ api_keys = {}
    /\ pc = "idle"
    /\ request = NoEmail
    /\ analysis_results = EmptyResults
    /\ services_run = << >>
    /\ http = NoHttp
    /\ net_calls = {}
    /\ outcomes = NoOutcomes
    /\ invoked = {}
    /\ previous = NoPrevious

CacheInit ==
    /\ OrchIdle
    /\ scan = NoScan
    /\ endpoint = NoEndpoint
    /\ tasks = NoTasks
    /\ last = NoLast
    /\ classify_runs = 0
    /\ \/ /\ initialized = "False"
          /\ prediction_cache = << >>
          /\ cache_expiry = << >>
          /\ now = 0
       \/ /\ initialized \in {"True", "fallback"}
          /\ prediction_cache = WarmCache(WarmEntries, initialized)
          /\ cache_expiry = WarmExpiry(WarmEntries)
          /\ now = WarmEntries
       \/ /\ initialized = "fallback"
          /\ prediction_cache = BurstCache(WarmEntries, initialized)
          /\ cache_expiry = BurstExpiry(WarmEntries)
          /\ now = WarmEntries

CacheNext ==
    \/ \E req \in CacheRequests, load \in {"loaded", "missing"} :
            AnalyzeEmail(req, load)
    \/ \E d \in TickSteps : Tick(d)

CacheSpec == CacheInit /\ [][CacheNext]_vars

(***************************************************************************)
(* The specification of analyze_url_with_urlscan                           *)
(***************************************************************************)
UrlscanInit ==
    /\ OrchIdle
    /\ initialized = "False"
    /\ prediction_cache = << >>
    /\ cache_expiry = << >>
    /\ now = 0
    /\ classify_runs = 0
    /\ last = NoLast
    /\ scan = NoScan
    /\ endpoint = NoEndpoint
    /\ tasks = NoTasks

UrlscanNext ==
    \/ \E quick_mode \in BOOLEAN, answer \in SubmitAnswers :
            ScanSubmit(quick_mode, answer)
    \/ ScanSleep
    \/ \E answer \in PollAnswers : ScanPoll(answer)

\* one call of analyze_url_with_urlscan; the event loop resumes the
\* coroutine when its sleep or its HTTP exchange (bounded by
\* ClientTimeout(total=30)) is over
(***************************************************************************)
(* The specification of the URL endpoints                                  *)
(***************************************************************************)
EndpointInit ==
    /\ api_keys \in {{}, Vendors}
    /\ pc = "idle"
    /\ request = NoEmail
    /\ analysis_results = EmptyResults
    /\ services_run = << >>
    /\ http = NoHttp
    /\ net_calls = {}
    /\ outcomes = NoOutcomes
    /\ invoked = {}
    /\ previous = NoPrevious
    /\ initialized = "False"
    /\ prediction_cache = << >>
    /\ cache_expiry = << >>
    /\ now = 0
    /\ classify_runs = 0
    /\ last = NoLast
    /\ scan = NoScan
    /\ endpoint = NoEndpoint
    /\ tasks = NoTasks

EndpointNext ==
    \/ \E urls \in UrlLists, answer \in ThreatListAnswers :
            get_safe_browsing_analysis(urls, answer)
    \/ \E urls \in UrlLists, outcome \in [1..PARALLEL_LIMIT -> ScanOutcomes] :
            get_urlscan_analysis(urls, outcome)
    \/ \E urls \in UrlLists, urlscan \in UrlscanOutcomes, google \in GoogleOutcomes :
            run_url_analysis_on(urls, urlscan, google)

EndpointSpec == EndpointInit /\ [][EndpointNext]_vars

(***************************************************************************)
(* The specification of concurrent /analyze-email requests                 *)
(***************************************************************************)
TasksInit ==
    /\ OrchIdle
    /\ initialized = "False"
    /\ prediction_cache = << >>
    /\ cache_expiry = << >>
    /\ now = 0
    /\ classify_runs = 0
    /\ last = NoLast
    /\ scan = NoScan
    /\ endpoint = NoEndpoint
    /\ tasks = NoTasks

TasksNext ==
    \/ \E t \in 1..MaxTasks, req \in TaskRequests : TaskArrive(t, req)
    \/ \E t \in 1..MaxTasks : TaskLookup(t)
    \/ \E t \in 1..MaxTasks : TaskAnalyze(t)
    \/ \E t \in 1..MaxTasks : TaskStore(t)

TasksSpec == TasksInit /\ [][TasksNext]_vars

UrlscanSpec == UrlscanInit /\ [][UrlscanNext]_vars /\ WF_vars(UrlscanNext)

(***************************************************************************)
(* Properties of the orchestrator (checked under Spec)                     *)
(***************************************************************************)
Results == analysis_results
MlRiskNow == MlRisk(Results.xgboostAnalysis)

\* the verdict of the current request has been computed
Scored == pc \in {"spam", "responded"} /\ Results.has_overallRisk

\* C1: for every request and every combination of signal results the
\* composite score computed by _calculate_comprehensive_risk, and reported
\* as overall_risk, lies in [0, 100]
ScoreInRange ==
    /\ Results.has_overallRisk =>
           /\ 0 <= Results.overallRisk
           /\ Results.overallRisk <= 100 * Scale
    /\ pc = "responded" =>
           /\ http.status = 200
           /\ http.overall_risk = Results.overallRisk

\* a verdict whose weighted sum exceeded 100 and was cut down to 100
ScoreClampedWitness ==
    /\ pc = "spam"
    /\ WeightedSum(Results) > 100 * Scale
    /\ Results.overallRisk = 100 * Scale

\* every signal but the classifier is unavailable (or has nothing to report)
OthersUnavailable ==
    /\ ~Results.urlAnalysis.urlscan.available
    /\ ~Results.urlAnalysis.google.available
    /\ ~Results.urlAnalysis.virustotal.available
    /\ ~(Results.fileAnalysis.available /\ Results.fileAnalysis.analysis_results # << >>)
    /\ ~Results.ipAnalysis.analysis_result.available

\* C2: when every signal other than the classifier is unavailable and
\* ML.risk <= 70, the final score is
\* clamp(ML.risk * 0.70 + lexical_spam_score * 0.02, 0, 100)
LexicalScoreCounted ==
    (pc = "responded" /\ http.status = 200 /\ OthersUnavailable
         /\ MlRiskNow <= ML_DOMINANCE_THRESHOLD * Scale)
    => http.overall_risk =
           Max(0, Min(100 * Scale,
                      (MlRiskNow * W_ML) \div 100
                          + (analyze_spam_indicators(request) * Scale * W_SPAM) \div 100))

\* every signal other than the classifier reports 0
OtherSignalsZero ==
    /\ Results.urlAnalysis.urlscan.malicious_score = 0
    /\ Results.urlAnalysis.google.threats = 0
    /\ SumRisk(Results.fileAnalysis.analysis_results) = 0
    /\ Results.ipAnalysis.analysis_result.risk_score = 0
    /\ analyze_spam_indicators(request) = 0

\* C3: whenever ML.risk > 70 the final score is at least ML.risk * 0.95,
\* whatever the other signals return, and it is exactly ML.risk * 0.95 when
\* every other signal contributes 0
DominanceFloor ==
    (Scored /\ MlRiskNow > ML_DOMINANCE_THRESHOLD * Scale)
    => /\ Results.overallRisk >= (MlRiskNow * ML_DOMINANCE_FACTOR) \div 100
       /\ OtherSignalsZero
              => Results.overallRisk = (MlRiskNow * ML_DOMINANCE_FACTOR) \div 100

\* a confident classifier verdict with silent other signals, lifted from
\* 0.70 to 0.95 of the classifier's risk
DominanceWitness ==
    /\ pc = "responded"
    /\ MlRiskNow > ML_DOMINANCE_THRESHOLD * Scale
    /\ OtherSignalsZero
    /\ WeightedSum([Results EXCEPT !.has_spam_score = FALSE]) = (MlRiskNow * W_ML) \div 100
    /\ http.overall_risk = (MlRiskNow * ML_DOMINANCE_FACTOR) \div 100

\* C4: an email without URLs, IPs or attachments that the trained
\* classifier predicts Safe with 90% confidence (10% phishing) gets
\* final_score <= 20 and is_phishing = false
SafeVerdictStaysLow ==
    (pc = "responded" /\ http.status = 200
         /\ Results.xgboostAnalysis.available
         /\ Results.xgboostAnalysis.method = "ml_model"
         /\ Results.xgboostAnalysis.prediction = "Safe"
         /\ Results.xgboostAnalysis.confidence = 90 * Scale
         /\ request.n_urls = 0 /\ request.n_ips = 0 /\ request.attachments = << >>)
    => /\ http.overall_risk <= 20 * Scale
       /\ ~http.is_phishing

\* C5: classifier says phishing with 92% confidence and no vendor key is
\* configured: final_score = 87.4, is_phishing, and services_run is exactly
\* ["ml_classification", "email_analysis"]
MissingCredentialsScenario ==
    (pc = "responded" /\ http.status = 200 /\ api_keys = {}
         /\ Results.xgboostAnalysis.available
         /\ Results.xgboostAnalysis.prediction = "Phishing"
         /\ Results.xgboostAnalysis.confidence = 92 * Scale)
    => /\ http.overall_risk = (874 * Scale) \div 10
       /\ http.is_phishing
       /\ http.services_run = <<"ml_classification", "email_analysis">>

\* the terms the adapters that succeeded must add to the weighted sum
ExpectedGoogleTerm ==
    IF request.n_urls > 0 /\ outcomes.google.kind = "ok"
    THEN (outcomes.google.matches * 20 * Scale * W_GOOGLE) \div 100 ELSE 0
ExpectedFileTerm ==
    IF ~outcomes.file_raised /\ request.attachments # << >>
    THEN LET risks == [i \in 1..Min(Len(request.attachments), FILE_LIMIT) |->
                          analyze_file_static(request.attachments[i])]
         IN  (((SumRisk(risks) * Scale) \div Len(risks)) * W_FILE) \div 100
    ELSE 0
ExpectedIpTerm ==
    IF request.n_ips > 0 /\ outcomes.ip.kind = "ok"
    THEN (analyze_ip_with_abuseipdb(TRUE, outcomes.ip).risk_score * Scale * W_IP) \div 100
    ELSE 0

\* C6: a failure of any single adapter (exception, error status, timeout)
\* leaves the request completing with a verdict; the result of every other
\* adapter is recorded in the breakdown and its term is part of the score
FailureIsolation ==
    pc = "responded" =>
        /\ http.status = 200
        /\ Results.urlAnalysis.present /\ Results.fileAnalysis.present
        /\ Results.ipAnalysis.present
        /\ request.n_urls > 0 =>
               /\ Results.urlAnalysis.available
               /\ Results.urlAnalysis.urlscan = analyze_url_with_urlscan(outcomes.urlscan)
               /\ Results.urlAnalysis.google = check_google_safebrowsing(outcomes.google)
               /\ Results.urlAnalysis.virustotal = check_virustotal(outcomes.virustotal)
        /\ (request.attachments # << >> /\ ~outcomes.file_raised) =>
               /\ Results.fileAnalysis.available
               /\ Len(Results.fileAnalysis.analysis_results)
                      = Min(Len(request.attachments), FILE_LIMIT)
        /\ (request.n_ips > 0 /\ outcomes.ip.kind # "none") =>
               /\ Results.ipAnalysis.available
               /\ Results.ipAnalysis.analysis_result
                      = analyze_ip_with_abuseipdb(TRUE, outcomes.ip)
        /\ http.overall_risk =
               ClampRisk(DominanceOverride(
                   (MlRiskNow * W_ML) \div 100 + ExpectedGoogleTerm
                       + ExpectedFileTerm + ExpectedIpTerm,
                   MlRiskNow))

\* the sandbox submission failed, the threat list, the file heuristic and the
\* IP reputation still reported, and their terms make up the score
FailureIsolationWitness ==
    /\ pc = "responded"
    /\ outcomes.urlscan = "http_error"
    /\ outcomes.google.kind = "ok" /\ outcomes.google.matches > 0
    /\ outcomes.ip.kind = "ok"
    /\ request.attachments # << >> /\ ~outcomes.file_raised
    /\ MlRiskNow <= ML_DOMINANCE_THRESHOLD * Scale
    /\ http.overall_risk < 100 * Scale
    /\ http.overall_risk > (MlRiskNow * W_ML) \div 100 + ExpectedGoogleTerm

\* C7: an error raised inside analyze_email_comprehensive still ends in a
\* successful response that carries a partial verdict
PartialVerdictOnFault ==
    pc = "failed" => http.status = 200

(***************************************************************************)
(* Properties of /analyze-email (checked under CacheSpec)                  *)
(***************************************************************************)
\* the step is a request that was served with caching enabled
CachedRequestStep == last'.seq = last.seq + 1 /\ last'.cache_results /\ last'.key # 0

AgeOf(key) == now - DictGet(cache_expiry, key)

OldestIn(expiry, k) ==
    \A j \in DictKeys(expiry) : DictGet(expiry, k) <= DictGet(expiry, j)

\* a request that stores a new key into a full cache removes exactly one
\* prior entry, one of least timestamp, and keeps the new one
EvictionStep ==
    (CachedRequestStep /\ ~DictHas(prediction_cache, last'.key)
         /\ Len(prediction_cache) = CACHE_LIMIT)
    => /\ Len(prediction_cache') = CACHE_LIMIT
       /\ DictHas(prediction_cache', last'.key)
       /\ \E k \in DictKeys(prediction_cache) :
              /\ last'.evicted = k
              /\ OldestIn(cache_expiry, k)
              /\ DictKeys(prediction_cache')
                     = (DictKeys(prediction_cache) \ {k}) \cup {last'.key}
              /\ DictKeys(cache_expiry') = DictKeys(prediction_cache')

CacheBounded ==
    /\ Len(prediction_cache) <= CACHE_LIMIT
    /\ Len(cache_expiry) <= CACHE_LIMIT

\* C8: the cache never holds more than 100 entries; inserting a new key into
\* a full cache evicts exactly one prior entry, one of oldest insertion time
CacheBoundedAndEvictsOldest == []CacheBounded /\ [][EvictionStep]_vars

\* a request has just evicted an entry from the full cache
EvictionWitness ==
    /\ last.evicted # 0
    /\ ~DictHas(prediction_cache, last.evicted)
    /\ DictHas(prediction_cache, last.key)
    /\ Len(prediction_cache) = CACHE_LIMIT

\* a request for a key whose entry is at least CACHE_TTL old
StaleRecomputedStep ==
    (CachedRequestStep /\ DictHas(prediction_cache, last'.key)
         /\ AgeOf(last'.key) >= CACHE_TTL)
    => /\ ~last'.hit
       /\ classify_runs' = classify_runs + 1
       /\ last'.response.timestamp = now
       /\ DictGet(prediction_cache', last'.key) = last'.response
       /\ DictGet(cache_expiry', last'.key) = now

\* C9: an entry whose age is at least the TTL is treated as absent: the
\* request recomputes the analysis and replaces the stored value and its
\* timestamp, although the stale entry was still in the cache
StaleEntryRecomputed == [][StaleRecomputedStep]_vars

\* the entry of the first email, stored at time 1, has been refreshed after
\* its TTL had passed
StaleRefreshWitness ==
    /\ last.key = 1 /\ last.cache_results /\ ~last.hit
    /\ now >= CACHE_TTL + 1
    /\ classify_runs >= 1
    /\ DictGet(cache_expiry, 1) = now
    /\ DictGet(prediction_cache, 1).timestamp = now

\* a request that computes stores what it returns; a request for a key
\* whose entry is younger than CACHE_TTL is served from the cache
HitServesStoredStep ==
    /\ (CachedRequestStep /\ ~last'.hit)
           => DictGet(prediction_cache', last'.key) = last'.response
    /\ (CachedRequestStep /\ DictHas(prediction_cache, last'.key)
            /\ AgeOf(last'.key) < CACHE_TTL)
           => /\ last'.hit
              /\ classify_runs' = classify_runs
              /\ last'.response = DictGet(prediction_cache, last'.key)
              /\ prediction_cache' = prediction_cache
              /\ cache_expiry' = cache_expiry

\* C10: with caching enabled, a request stores the response it returns, and
\* a later request for the same content within the TTL runs neither feature
\* extraction nor classification and returns the stored response unchanged
RepeatServedFromCache == [][HitServesStoredStep]_vars

\* a fresh email was analysed once and then served again, later, from the
\* cache
RepeatWitness ==
    /\ last.hit /\ last.key > WarmEntries
    /\ classify_runs = 1
    /\ last.seq >= 2
    /\ last.response.timestamp < now
    /\ last.response = DictGet(prediction_cache, last.key)

(***************************************************************************)
(* Properties of repeated requests (checked under RepeatSpec)              *)
(***************************************************************************)
\* C11: a request that repeats the content just answered is served from a
\* result cache: no adapter (classifier, URL sandbox, threat list,
\* VirusTotal, file heuristic, IP reputation) is invoked for it and its
\* services_run is that of the first computation
RepeatBypassesFanOut ==
    previous.repeated =>
        /\ invoked = {}
        /\ net_calls = {}
        /\ pc = "responded" => http.services_run = previous.services_run

(***************************************************************************)
(* Properties of the fan-out (checked under Spec)                          *)
(***************************************************************************)
\* the adapters that have an entity of the request to act on
Applicable(email) ==
    {"classifier"} \cup url_adapters_called(email)
        \cup file_adapters_called(email) \cup ip_adapters_called(email)

\* the result of the adapter has been recorded in analysis_results
ResultRecorded(adapter) ==
    CASE adapter = "classifier" -> Results.xgboostAnalysis.present
      [] adapter \in UrlAdapters -> Results.urlAnalysis.present
      [] adapter = "file_static" -> Results.fileAnalysis.present
      [] OTHER -> Results.ipAnalysis.present

\* what the adapter of the vendor reported
VendorResult(vendor) ==
    CASE vendor = "urlscan_io" ->
             [available |-> Results.urlAnalysis.urlscan.available,
              error |-> Results.urlAnalysis.urlscan.error]
      [] vendor = "google_safebrowsing" ->
             [available |-> Results.urlAnalysis.google.available,
              error |-> Results.urlAnalysis.google.error]
      [] vendor = "virustotal" ->
             [available |-> Results.urlAnalysis.virustotal.available,
              error |-> Results.urlAnalysis.virustotal.error]
      [] OTHER ->
             [available |-> Results.ipAnalysis.analysis_result.available,
              error |-> Results.ipAnalysis.analysis_result.error]

NotConfiguredErrors == {"not_configured", "AbuseIPDB API key not configured"}

\* C16: an adapter whose credential is missing or is the placeholder reports
\* available = false with a not-configured error and sends no request to
\* its vendor during analyze_email_comprehensive
ConfigurationShortCircuit ==
    \A vendor \in Vendors :
        vendor \notin api_keys =>
            /\ vendor \notin net_calls
            /\ (vendor \in invoked /\ ResultRecorded(vendor))
                   => /\ ~VendorResult(vendor).available
                      /\ VendorResult(vendor).error \in NotConfiguredErrors

\* C17: every applicable adapter is launched before any of them has
\* completed
AdaptersLaunchedTogether ==
    \A a \in Applicable(request), b \in Applicable(request) :
        (pc \in TrySteps /\ ResultRecorded(a)) => b \in invoked

\* C18: the weighted aggregation runs only after every signal computation
\* (classifier, URL, file, IP, lexical spam score) has completed or failed
JoinBarrier ==
    Results.has_overallRisk =>
        /\ Results.xgboostAnalysis.present
        /\ Results.urlAnalysis.present
        /\ Results.fileAnalysis.present
        /\ Results.ipAnalysis.present
        /\ Results.has_spam_score

\* C19: when the IP reputation exchange times out the request still
\* completes with a verdict and the IP entry of the breakdown has
\* available = false and error = "timeout"
IpTimeoutReported ==
    (pc = "responded" /\ request.n_ips > 0 /\ outcomes.ip.kind = "timeout")
    => /\ http.status = 200
       /\ ~Results.ipAnalysis.available
       /\ Results.ipAnalysis.error = "timeout"

\* C20: an adapter is invoked only if an entity of its kind was extracted;
\* a request without URL, public IP and attachment filename invokes none of
\* the URL sandbox, threat list, VirusTotal, file heuristic and IP reputation
OnlyApplicableInvoked ==
    /\ invoked \cap UrlAdapters # {} => request.n_urls > 0
    /\ "file_static" \in invoked => request.attachments # << >>
    /\ "abuseipdb" \in invoked => request.n_ips > 0
    /\ net_calls \subseteq invoked
    /\ (request.n_urls = 0 /\ request.n_ips = 0 /\ request.attachments = << >>)
           => invoked \subseteq {"classifier"}

\* a request without URL, IP and attachment was answered after all steps
\* ran, and only the classifier was invoked
NothingApplicableWitness ==
    /\ pc = "responded" /\ http.status = 200
    /\ request.n_urls = 0 /\ request.n_ips = 0 /\ request.attachments = << >>
    /\ Len(services_run) = 7
    /\ invoked = {"classifier"}
    /\ net_calls = {}

(***************************************************************************)
(* Further properties of /analyze-email (checked under CacheSpec)          *)
(***************************************************************************)
\* what a computation of the last request would return, timing fields zeroed
FreshResponse ==
    BuildResponse([email_content |-> CacheEmail(last.key),
                   include_detailed_analysis |-> last.include_detailed_analysis,
                   cache_results |-> last.cache_results],
                  analyze_with_ml(initialized, CacheEmail(last.key).feat,
                                  CacheEmail(last.key).ml),
                  0, 0)

\* C12: the cache key covers the options of the request, so a cache hit
\* returns what a fresh computation of the current request would return,
\* apart from the timing fields
CacheKeyCoversOptions ==
    last.hit =>
        [last.response EXCEPT !.analysis_time = 0, !.timestamp = 0] = FreshResponse

(***************************************************************************)
(* Properties of the classifier adapter (checked under Spec)               *)
(***************************************************************************)
\* the trained model is missing, failed to load, or raised at prediction
ModelFailed == initialized # "True" \/ request.ml.raises

\* C13: whenever the trained model is missing, fails to load or raises at
\* prediction time, _run_ml_analysis returns a rule-based result with
\* available = true
ClassifierAlwaysProducible ==
    (Results.xgboostAnalysis.present /\ ~outcomes.ml_raised /\ ModelFailed)
    => /\ Results.xgboostAnalysis.available
       /\ Results.xgboostAnalysis.method = "rule_based"
       /\ Results.xgboostAnalysis.prediction =
              (IF analyze_with_rules(request.feat).is_phishing
               THEN "Phishing" ELSE "Safe")

\* the model was loaded, its prediction raised, and the request was answered
\* with the verdict of the rules
ClassifierFallbackWitness ==
    /\ pc = "responded" /\ http.status = 200
    /\ initialized = "True" /\ request.ml.raises
    /\ Results.xgboostAnalysis.available
    /\ Results.xgboostAnalysis.method = "rule_based"
    /\ Results.xgboostAnalysis.prediction = "Phishing"

(***************************************************************************)
(* Properties of analyze_url_with_urlscan (checked under UrlscanSpec)      *)
(***************************************************************************)
Returned == scan.pc = "returned"

\* the submission was accepted: the vendor answered 200 with a scan id
Accepted == scan.scan_id # ""

\* C14: in quick mode an accepted submission returns available = true,
\* status = "submitted", malicious_score = 0 and the scan id, without any
\* sleep or result poll, as analyze_email_comprehensive takes it
QuickModeNeverPolls ==
    /\ scan.quick_mode => (scan.waits = << >> /\ scan.polls = << >>
                               /\ scan.pc \in {"idle", "returned"})
    /\ (Returned /\ scan.quick_mode /\ Accepted)
       => /\ scan.result.available
          /\ scan.result.status = "submitted"
          /\ scan.result.malicious_score = 0
          /\ scan.result.scan_id = scan.scan_id
          /\ LET r == analyze_url_with_urlscan("submitted")
             IN  /\ r.available = scan.result.available
                 /\ r.status = scan.result.status
                 /\ r.malicious_score = scan.result.malicious_score

\* a quick-mode call has returned the scan id of its accepted submission
QuickModeWitness ==
    /\ Returned /\ scan.quick_mode /\ Accepted
    /\ scan.result.status = "submitted"
    /\ scan.result.scan_id = "scan-b"
    /\ scan.polls = << >>

\* every poll was preceded by its wait, the waits are 5, 10, 15 in order,
\* no poll follows a poll that yielded a result, and three answers of
\* "not ready" end in status "processing"
FullModePolling ==
    /\ Len(scan.polls) <= max_attempts
    /\ Len(scan.waits) <= max_attempts
    /\ scan.waits = SubSeq(<<5, 10, 15>>, 1, Len(scan.waits))
    /\ Len(scan.polls) = (IF scan.pc = "poll" THEN Len(scan.waits) - 1
                          ELSE Len(scan.waits))
    /\ \A i \in 1..Len(scan.polls) :
           scan.polls[i].status = 200
           => /\ i = Len(scan.polls)
              /\ Returned
              /\ scan.result.available
              /\ scan.result.malicious_score = malicious_score_of(scan.polls[i].verdicts)
    /\ (Returned /\ Len(scan.polls) = max_attempts
            /\ \A i \in 1..max_attempts : scan.polls[i].status = 404)
       => /\ scan.result.available
          /\ scan.result.status = "processing"
          /\ scan.result.malicious_score = 0
          /\ scan.result.error = ""

\* C15: full mode performs at most 3 polls, after waits of 5, 10 and 15
\* seconds, returns as soon as a poll yields a result, returns "processing"
\* when every poll answers 404, and every call returns
FullModeBoundedPolling ==
    /\ []FullModePolling
    /\ (scan.pc # "idle") ~> Returned

\* a full-mode call has returned "processing" after three polls answered 404
ProcessingWitness ==
    /\ Returned /\ ~scan.quick_mode
    /\ scan.waits = <<5, 10, 15>>
    /\ Len(scan.polls) = 3
    /\ \A i \in 1..3 : scan.polls[i].status = 404
    /\ scan.result.status = "processing"

(***************************************************************************)
(* Properties of the sandbox term (checked under Spec)                     *)
(***************************************************************************)
\* C27: the URL sandbox is called in quick mode, so its malicious_score is 0
\* in every result and the sandbox term adds nothing to the weighted score
SandboxTermAlwaysZero ==
    /\ Results.urlAnalysis.urlscan.malicious_score = 0
    /\ Results.has_overallRisk =>
           Results.overallRisk =
               calculate_comprehensive_risk(
                   [Results EXCEPT !.urlAnalysis.urlscan = NoUrlscan,
                                   !.has_spam_score = FALSE])

\* the sandbox accepted the URL of the request and the verdict was computed
\* from the other signals alone
SandboxSubmittedWitness ==
    /\ pc = "responded" /\ http.status = 200
    /\ request.n_urls > 0
    /\ Results.urlAnalysis.urlscan.available
    /\ Results.urlAnalysis.urlscan.status = "submitted"
    /\ Results.urlAnalysis.google.threats > 0
    /\ http.overall_risk =
           Min(100 * Scale, (MlRiskNow * W_ML) \div 100 + ExpectedGoogleTerm
                                + ExpectedFileTerm + ExpectedIpTerm)

(***************************************************************************)
(* Properties of the cache dicts (checked under CacheSpec)                 *)
(***************************************************************************)
\* a request that asked for no caching
UncachedRequestStep == last'.seq = last.seq + 1 /\ ~last'.cache_results

\* a request with cache_results = false leaves both dicts as they are,
\* whatever its status, and a response it returns was computed by it
UncachedStep ==
    UncachedRequestStep
    => /\ prediction_cache' = prediction_cache
       /\ cache_expiry' = cache_expiry
       /\ ~last'.hit
       /\ last'.status = 200
          => /\ classify_runs' = classify_runs + 1
             /\ last'.response.timestamp = now

\* C28: a request with cache_results = false neither reads nor changes the
\* prediction cache, and its response is freshly computed even when an
\* unexpired entry for the same content exists
UncachedRequestBypassesCache == [][UncachedStep]_vars

\* a request without caching was computed afresh while an unexpired entry of
\* its content, stored earlier, stayed in the cache
UncachedWitness ==
    /\ last.seq >= 1 /\ ~last.cache_results /\ last.status = 200
    /\ ~last.hit
    /\ DictHas(prediction_cache, last.key)
    /\ now - DictGet(cache_expiry, last.key) < CACHE_TTL
    /\ DictGet(prediction_cache, last.key).timestamp < last.response.timestamp

\* C29: prediction_cache and cache_expiry have the same key set in every
\* state between requests
CacheDictsAgree ==
    /\ DictKeys(prediction_cache) = DictKeys(cache_expiry)
    /\ Len(prediction_cache) = Len(cache_expiry)
    /\ Cardinality(DictKeys(prediction_cache)) = Len(prediction_cache)

\* an expired key was refreshed after an eviction had taken place
RefreshAfterEvictionWitness ==
    /\ last.seq = MaxCacheRequests /\ last.status = 200
    /\ last.cache_results /\ ~last.hit /\ last.evicted = 0
    /\ Len(prediction_cache) = CACHE_LIMIT
    /\ ~DictHas(prediction_cache, 1)
    /\ DictHas(cache_expiry, last.key)
    /\ DictGet(cache_expiry, last.key) = now
    /\ now >= WarmEntries + CACHE_TTL

\* C30: after a request that stored a result, that result is in the cache,
\* also when the eviction it triggered met entries of the same timestamp
InsertedEntrySurvives ==
    (last.seq >= 1 /\ last.cache_results /\ last.status = 200 /\ ~last.hit)
    => /\ DictHas(prediction_cache, last.key)
       /\ DictGet(prediction_cache, last.key) = last.response
       /\ DictHas(cache_expiry, last.key)
       /\ last.evicted # last.key

\* an insertion evicted an entry although every entry of the cache,
\* the new one included, carried the same timestamp
TieEvictionWitness ==
    /\ last.evicted # 0 /\ last.evicted # last.key
    /\ DictHas(prediction_cache, last.key)
    /\ \A k \in DictKeys(cache_expiry) :
           DictGet(cache_expiry, k) = DictGet(cache_expiry, last.key)
    /\ last.response.timestamp = WarmEntries

(***************************************************************************)
(* Properties of model_cache["initialized"] (checked under RepeatSpec)     *)
(***************************************************************************)
\* the classifier result of the request has just been produced
ClassifiedStep ==
    ~analysis_results.xgboostAnalysis.present
    /\ analysis_results'.xgboostAnalysis.present

\* one step of the flag and of the path analyze_with_ml takes
InitializedStep ==
    /\ initialized # "False" => initialized' = initialized
    /\ initialized' # initialized => initialized' \in {"True", "fallback"}
    /\ ClassifiedStep => initialized' \in {"True", "fallback"}
    /\ (ClassifiedStep /\ analysis_results'.xgboostAnalysis.available)
       => analysis_results'.xgboostAnalysis.method =
              IF initialized' = "True" /\ ~request.ml.raises
              THEN "ml_model" ELSE "rule_based"

\* C24: the flag starts False, the first initialize_models call moves it to
\* True or to "fallback", nothing changes it afterwards, and analyze_with_ml
\* uses the trained model only in state True
InitializationOneShot == (initialized = "False") /\ [][InitializedStep]_vars

\* the same content was analysed a second time after a fallback: the flag
\* was not retried, and the rule-based path answered although the trained
\* model would have
FallbackKeptWitness ==
    /\ previous.repeated /\ pc = "responded" /\ http.status = 200
    /\ initialized = "fallback"
    /\ ~request.ml.raises
    /\ Results.xgboostAnalysis.available
    /\ Results.xgboostAnalysis.method = "rule_based"

(***************************************************************************)
(* Properties of the IP reputation score (checked under Spec)              *)
(***************************************************************************)
\* the reputation vendor answered the lookup of the current request
IpAnswered ==
    /\ Results.ipAnalysis.present /\ Results.ipAnalysis.has_result
    /\ Results.ipAnalysis.analysis_result.available

\* the adjustments summed first and clamped once
ClampedIpScore(c, n, w) ==
    Max(0, Min(100, c + (IF n > 10 THEN 10 ELSE 0) - (IF w THEN 20 ELSE 0)))

\* C22: for abuse-confidence c, report count n and whitelist flag w the
\* adapter returns risk_score = clamp(c + 10[n > 10] - 20[w], 0, 100), and
\* status "malicious" exactly when risk_score >= 50
IpScoreClampedOnce ==
    IpAnswered
    => LET r == Results.ipAnalysis.analysis_result
           o == outcomes.ip
       IN  /\ r.risk_score = ClampedIpScore(o.abuse, o.reports, o.whitelisted)
           /\ (r.status = "malicious") <=> (r.risk_score >= 50)

(***************************************************************************)
(* Properties of cancellation (checked under CancelSpec)                   *)
(***************************************************************************)
\* what the cancelled adapter left in the results of the request
CancelledResult ==
    CASE outcomes.cancelled = "urlscan_io" -> Results.urlAnalysis.urlscan
      [] outcomes.cancelled = "google_safebrowsing" -> Results.urlAnalysis.google
      [] outcomes.cancelled = "virustotal" -> Results.urlAnalysis.virustotal
      [] OTHER -> Results.ipAnalysis.analysis_result

\* C23: a cancellation of an in-flight request is absorbed by the adapter in
\* flight, which yields available = false and error = "cancelled" as for a
\* timeout, and does not escape the adapter as an exception
CancellationAbsorbed ==
    outcomes.cancelled # "none"
    => /\ pc # "cancelled"
       /\ ~CancelledResult.available
       /\ CancelledResult.error = "cancelled"

(***************************************************************************)
(* Properties of the URL endpoints (checked under EndpointSpec)            *)
(***************************************************************************)
\* the URLs sent to the threat-list vendor by the call
Batch == endpoint.threat_entries

\* C21: on every path that calls the threat-list vendor the list sent has at
\* most 5 URLs, suspicious URLs precede the others, each group keeps the
\* input order, and no other URL is included while a suspicious URL is left
\* out of a batch of fewer than 5 entries
ThreatListBatching ==
    /\ Len(Batch) <= 5
    /\ \A i, j \in 1..Len(Batch) :
           i < j => /\ Batch[i].suspicious \/ ~Batch[j].suspicious
                    /\ Batch[i].suspicious = Batch[j].suspicious
                       => Batch[i].id < Batch[j].id
    /\ (Len(Batch) < 5 /\ \E i \in 1..Len(Batch) : ~Batch[i].suspicious)
       => \A k \in 1..Len(endpoint.urls) :
              endpoint.urls[k].suspicious
              => \E i \in 1..Len(Batch) : Batch[i] = endpoint.urls[k]

\* the scan of URL `id' launched by the call succeeded with this score
ScanSucceededWith(id, score) ==
    \E j \in 1..Len(endpoint.scanned_results) :
        /\ endpoint.scanned_results[j].url = id
        /\ endpoint.scanned_results[j].available
        /\ endpoint.scanned_results[j].malicious_score = score

\* C26: /urlscan launches at most 3 scans per request, and every entry of
\* scanned_urls pairs a URL with the score of the scan of that URL, also
\* when some of the launched scans fail and others succeed
ScannedUrlsPaired ==
    endpoint.op = "urlscan"
    => /\ Len(endpoint.launched) <= 3
       /\ \A i \in 1..Len(endpoint.scanned_urls) :
              ScanSucceededWith(endpoint.scanned_urls[i].url,
                                endpoint.scanned_urls[i].score)

(***************************************************************************)
(* Properties of concurrent /analyze-email requests (checked under         *)
(* TasksSpec)                                                              *)
(***************************************************************************)
\* two requests of the same content, both with caching, that arrived while
\* the key was not cached, and both answered
RacingPair(t, u) ==
    /\ t # u
    /\ tasks.of[t].pc = "done" /\ tasks.of[u].pc = "done"
    /\ tasks.of[t].status = 200 /\ tasks.of[u].status = 200
    /\ caching(tasks.of[t].req) /\ caching(tasks.of[u].req)
    /\ email_hash(tasks.of[t].req) = email_hash(tasks.of[u].req)
    /\ tasks.of[t].cold /\ tasks.of[u].cold

\* C25: two concurrent requests with identical content that both arrive while
\* the key is uncached never both run the classification; the check, compute
\* and store steps of one request are not interleaved with those of another,
\* so the second request observes the entry the first one stored
NoDoubleClassification ==
    /\ \A t, u \in 1..MaxTasks :
           RacingPair(t, u)
           => /\ ~(tasks.of[t].classified /\ tasks.of[u].classified)
              /\ tasks.of[u].classified
                 => /\ tasks.of[t].hit
                    /\ tasks.of[t].response = tasks.of[u].response
    /\ \A t \in 1..MaxTasks :
           (tasks.running # t /\ tasks.of[t].pc # "none") => tasks.of[t].pc \in {"start", "done"}

\* both requests were waiting at the same time, and the second was answered
\* from the entry of the first
RacingPairWitness ==
    /\ RacingPair(1, 2)
    /\ tasks.of[1].classified /\ tasks.of[2].hit
    /\ classify_runs = 1
    /\ tasks.of[2].response = tasks.of[1].response

====
